---- MODULE Spec2Model ----
(***************************************************************************)
(* Model of kyte: deltas (normalised series of insert / retain / delete    *)
(* operations), Delta::push, Delta::chop, the dual-cursor iterator, and    *)
(* compose / transform on operations and deltas.                           *)
(*                                                                         *)
(* An Option<A> is a sequence of length 0 (None) or 1 (Some(a)).  The      *)
(* attribute type A is LastWriteWins<usize>, as in the fuzz target.  A     *)
(* value T (String) is a sequence of elements.  usize is Width bits wide.  *)
(***************************************************************************)
EXTENDS Integers, Sequences, FiniteSets, TLC

\* ------------------------------------------------------------------ bounds
\* Width of usize in the model.
Width == 2
\* Most pushes spent on the three deltas of one run, taken together.
MaxPushes == 3

RECURSIVE Pow2(_)
Pow2(n) == IF n = 0 THEN 1 ELSE 2 * Pow2(n - 1)

\* usize::MAX
N_MAX == Pow2(Width) - 1

min(a, b) == IF a < b THEN a ELSE b

\* ------------------------------------------------------------ ops.rs, op.rs
None == <<>>
Some(a) == <<a>>

Insert(insert, attributes) ==
    [type |-> "Insert", insert |-> insert, attributes |-> attributes]
Retain(retain, attributes) ==
    [type |-> "Retain", retain |-> retain, attributes |-> attributes]
Delete(delete) == [type |-> "Delete", delete |-> delete]

\* Default::default() of Insert<T, A> and of Delete (what mem::take leaves).
DefaultInsert == Insert(<<>>, None)
DefaultDelete == Delete(0)

\* Len for Op<T, A>
len(op) ==
    CASE op.type = "Insert" -> Len(op.insert)
      [] op.type = "Retain" -> op.retain
      [] op.type = "Delete" -> op.delete

\* Insert::as_retain
as_retain(insert) == Retain(len(insert), None)

\* Option::or as used by Retain::or
OptionOr(a, b) == IF a # None THEN a ELSE b

\* Retain::or
or(self, other) == Retain(self.retain, OptionOr(self.attributes, other.attributes))

\* iter().take(n).collect() and iter().skip(n).collect()
take_n(s, n) == SubSeq(s, 1, min(n, Len(s)))
skip_n(s, n) == SubSeq(s, min(n, Len(s)) + 1, Len(s))

\* Split for Insert / Retain / Delete: [prefix |-> returned op, rest |-> self].
\* The count of the rest is computed in usize (wrapping subtraction).
SplitInsert(self, n) ==
    [prefix |-> Insert(take_n(self.insert, n), self.attributes),
     rest   |-> Insert(skip_n(self.insert, n), self.attributes)]
SplitRetain(self, n) ==
    [prefix |-> Retain(n, self.attributes),
     rest   |-> Retain((self.retain - n) % Pow2(Width), self.attributes)]
SplitDelete(self, n) ==
    [prefix |-> Delete(n),
     rest   |-> Delete((self.delete - n) % Pow2(Width))]

SplitVariant(self, n) ==
    CASE self.type = "Insert" -> SplitInsert(self, n)
      [] self.type = "Retain" -> SplitRetain(self, n)
      [] self.type = "Delete" -> SplitDelete(self, n)

\* `self.retain -= len` and `self.delete -= len` underflow when the length
\* asked for exceeds the count.
SplitUnderflows(self, n) == self.type \in {"Retain", "Delete"} /\ n > len(self)

\* Split::split called on a Retain or a Delete value itself, not through Op:
\* nothing clamps the length.  Where the subtraction underflows, a build
\* with overflow checks panics (None) and one without wraps the count.
SplitDirect(self, n, overflow_checks) ==
    IF overflow_checks /\ SplitUnderflows(self, n) THEN None
    ELSE Some(SplitVariant(self, n))

\* Faulty variant of SplitOp: the length asked for is not clamped to the
\* length of the op.
SplitOp_NoClamp(self, n) == SplitVariant(self, n)

\* Split for Op<T, A>: clamps the length first.
SplitOp(self, n) == SplitVariant(self, min(len(self), n))

\* op::split(lhs, rhs): both split at the smaller of the two lengths.
split(lhs, rhs) ==
    LET n == min(len(lhs), len(rhs))
    IN  [lhs |-> SplitVariant(lhs, n), rhs |-> SplitVariant(rhs, n)]

\* ---------------------------------------------------------------- delta.rs
\* usize::overflowing_add
overflowing_add(a, b) ==
    [value |-> (a + b) % Pow2(Width), overflow |-> a + b > N_MAX]

Front(ops) == SubSeq(ops, 1, Len(ops) - 1)
Last(ops) == ops[Len(ops)]

\* Delta::push is recursive (the Delete / Insert arm pushes again).
RECURSIVE push(_, _)


\* Faulty variant of PushOntoInsert: never merges two Inserts.
PushOntoInsert_NeverMerges(ops, op) == Append(ops, op)

\* Delta::push, match arm "last op is an Insert"
PushOntoInsert(ops, op) ==
    LET last_op == Last(ops) IN
    IF op.type = "Insert" /\ last_op.attributes = op.attributes
    THEN Append(Front(ops), Insert(last_op.insert \o op.insert, last_op.attributes))
    ELSE Append(ops, op)

\* Faulty variant of PushOntoRetain: the sum of the two counts wraps around
\* instead of saturating.
PushOntoRetain_Wraps(ops, op) ==
    LET last_op == Last(ops) IN
    IF op.type = "Retain" /\ last_op.attributes = op.attributes
    THEN Append(Front(ops),
                Retain(overflowing_add(last_op.retain, op.retain).value,
                       last_op.attributes))
    ELSE Append(ops, op)

\* Delta::push, match arm "last op is a Retain"
PushOntoRetain(ops, op) ==
    LET last_op == Last(ops) IN
    IF op.type = "Retain" /\ last_op.attributes = op.attributes
    THEN LET sum == overflowing_add(last_op.retain, op.retain) IN
         IF ~sum.overflow
         THEN Append(Front(ops), Retain(sum.value, last_op.attributes))
         ELSE Front(ops) \o <<Retain(N_MAX, last_op.attributes),
                              Retain((sum.value + 1) % Pow2(Width), op.attributes)>>
    ELSE Append(ops, op)


\* Faulty variant of PushOntoDelete: an Insert pushed after a Delete is appended, not
\* swapped in front of it.
PushOntoDelete_NoSwap(ops, op) ==
    LET last_op == Last(ops) IN
    CASE op.type = "Insert" -> Append(ops, op)
      [] op.type = "Retain" -> Append(ops, op)
      [] op.type = "Delete" ->
           LET sum == overflowing_add(last_op.delete, op.delete) IN
           IF ~sum.overflow
           THEN Append(Front(ops), Delete(sum.value))
           ELSE Front(ops) \o <<Delete(N_MAX),
                                Delete((sum.value + 1) % Pow2(Width))>>

\* Faulty variant of PushOntoDelete: the Insert is swapped in front of the Delete
\* with plain appends, so it is not merged into an Insert before the Delete.
PushOntoDelete_SwapNoMerge(ops, op) ==
    LET last_op == Last(ops) IN
    CASE op.type = "Insert" -> Append(Append(Front(ops), op), last_op)
      [] op.type = "Retain" -> Append(ops, op)
      [] op.type = "Delete" ->
           LET sum == overflowing_add(last_op.delete, op.delete) IN
           IF ~sum.overflow
           THEN Append(Front(ops), Delete(sum.value))
           ELSE Front(ops) \o <<Delete(N_MAX),
                                Delete((sum.value + 1) % Pow2(Width))>>

\* Delta::push, match arm "last op is a Delete"
PushOntoDelete(ops, op) ==
    LET last_op == Last(ops) IN
    CASE op.type = "Insert" -> push(push(Front(ops), op), last_op)
      [] op.type = "Retain" -> Append(ops, op)
      [] op.type = "Delete" ->
           LET sum == overflowing_add(last_op.delete, op.delete) IN
           IF ~sum.overflow
           THEN Append(Front(ops), Delete(sum.value))
           ELSE Front(ops) \o <<Delete(N_MAX),
                                Delete((sum.value + 1) % Pow2(Width))>>


\* Faulty variant of push: an op of length 0 is not dropped.
push_KeepsZeroLength(ops, op) ==
    IF ops = <<>> THEN <<op>>
    ELSE CASE Last(ops).type = "Insert" -> PushOntoInsert(ops, op)
           [] Last(ops).type = "Retain" -> PushOntoRetain(ops, op)
           [] Last(ops).type = "Delete" -> PushOntoDelete(ops, op)

\* Delta::push
push(ops, op) ==
    IF len(op) = 0 THEN ops
    ELSE IF ops = <<>> THEN <<op>>
    ELSE CASE Last(ops).type = "Insert" -> PushOntoInsert(ops, op)
           [] Last(ops).type = "Retain" -> PushOntoRetain(ops, op)
           [] Last(ops).type = "Delete" -> PushOntoDelete(ops, op)

\* Extend<Op> for Delta: pushes every op of the iterator in order.
RECURSIVE extend(_, _)
extend(ops, iter) ==
    IF iter = <<>> THEN ops ELSE extend(push(ops, Head(iter)), Tail(iter))

\* FromIterator for Delta (collect)
from_iter(iter) == extend(<<>>, iter)


\* Faulty variant of chop: removes one trailing bare Retain only (if for while).
chop_Once(ops) ==
    IF ops # <<>> /\ Last(ops).type = "Retain" /\ Last(ops).attributes = None
    THEN Front(ops)
    ELSE ops

\* Delta::chop
RECURSIVE chop(_)
chop(ops) ==
    IF ops # <<>> /\ Last(ops).type = "Retain" /\ Last(ops).attributes = None
    THEN chop(Front(ops))
    ELSE ops

\* ----------------------------------------------------------------- iter.rs
\* Iter<T, A>: the upstream ops still to come and the one-op buffer.
IterNew(ops) == [iter |-> ops, partial |-> None]

\* Faulty variant of next_mut: the next upstream op is pulled even while the
\* buffer still holds the rest of a partially consumed op.
next_mut_DropsResidual(self) ==
    IF self.iter = <<>> THEN [iter |-> <<>>, partial |-> None]
    ELSE [iter |-> Tail(self.iter), partial |-> Some(Head(self.iter))]

\* Iter::next_mut: the iterator afterwards; the op handed out is its partial
\* (None when the upstream is exhausted).
next_mut(self) ==
    IF self.partial # None /\ len(self.partial[1]) > 0 THEN self
    ELSE IF self.iter = <<>> THEN [iter |-> <<>>, partial |-> None]
    ELSE [iter |-> Tail(self.iter), partial |-> Some(Head(self.iter))]


\* Faulty variant of next: the partially consumed op in the buffer is not yielded.
next_SkipsPartial(self) ==
    IF self.iter = <<>>
    THEN [item |-> None, self |-> [self EXCEPT !.partial = None]]
    ELSE [item |-> Some(Head(self.iter)),
          self |-> [iter |-> Tail(self.iter), partial |-> None]]

\* Iterator::next for Iter: [item |-> Option<Op>, self |-> the iterator afterwards]
next(self) ==
    IF self.partial # None /\ len(self.partial[1]) > 0
    THEN [item |-> self.partial, self |-> [self EXCEPT !.partial = None]]
    ELSE IF self.iter = <<>>
    THEN [item |-> None, self |-> [self EXCEPT !.partial = None]]
    ELSE [item |-> Some(Head(self.iter)),
          self |-> [iter |-> Tail(self.iter), partial |-> None]]

\* All the ops that repeated calls of next() yield until None.
RECURSIVE drain(_)
drain(self) ==
    LET n == next(self) IN
    IF n.item = None THEN <<>> ELSE n.item \o drain(n.self)

\* -------------------------------------------------------------- compose.rs
\* Compose for LastWriteWins<T>
ComposeLastWriteWins(lhs, rhs) == rhs

\* Faulty variant of ComposeOption: when both attributes are present the left
\* one is kept.
ComposeOption_LeftWins(lhs, rhs) ==
    CASE lhs # None -> lhs
      [] lhs = None /\ rhs # None -> rhs
      [] OTHER -> None

\* Compose for Option<T>
ComposeOption(lhs, rhs) ==
    CASE lhs # None /\ rhs # None -> Some(ComposeLastWriteWins(lhs[1], rhs[1]))
      [] lhs # None /\ rhs = None -> lhs
      [] lhs = None /\ rhs # None -> rhs
      [] OTHER -> None

\* The op-level combiners return [lhs, rhs |-> the two ops as left behind in
\* their iterators, out |-> the op produced].

\* Compose<&mut Retain> for &mut Insert
ComposeInsertRetain(lhs, rhs) ==
    LET s == split(lhs, rhs) IN
    [lhs |-> s.lhs.rest, rhs |-> s.rhs.rest,
     out |-> Insert(s.lhs.prefix.insert,
                    ComposeOption(s.lhs.prefix.attributes, s.rhs.prefix.attributes))]

\* Faulty variant of ComposeInsertDelete: the aligned part of Bob's Delete is
\* emitted, although the elements it deletes were never in the base.
ComposeInsertDelete_EmitsDelete(lhs, rhs) ==
    LET s == split(lhs, rhs) IN
    [lhs |-> s.lhs.rest, rhs |-> s.rhs.rest, out |-> s.rhs.prefix]

\* Faulty variant of ComposeInsertDelete: Alice's Insert is left whole, only
\* Bob's Delete is consumed.
ComposeInsertDelete_KeepsInsert(lhs, rhs) ==
    LET s == split(lhs, rhs) IN
    [lhs |-> lhs, rhs |-> s.rhs.rest, out |-> DefaultDelete]

\* Compose<&mut Delete> for &mut Insert
ComposeInsertDelete(lhs, rhs) ==
    LET s == split(lhs, rhs) IN
    [lhs |-> s.lhs.rest, rhs |-> s.rhs.rest, out |-> DefaultDelete]

\* Compose<&mut Retain> for &mut Retain
ComposeRetainRetain(lhs, rhs) ==
    LET s == split(lhs, rhs) IN
    [lhs |-> s.lhs.rest, rhs |-> s.rhs.rest,
     out |-> Retain(s.lhs.prefix.retain,
                    ComposeOption(s.lhs.prefix.attributes, s.rhs.prefix.attributes))]

\* Compose<&mut Delete> for &mut Retain
ComposeRetainDelete(lhs, rhs) ==
    LET s == split(lhs, rhs) IN
    [lhs |-> s.lhs.rest, rhs |-> s.rhs.rest, out |-> s.rhs.prefix]

\* Faulty variant of ComposeAnyInsert: Alice's op is consumed by the aligned
\* length along with Bob's Insert.
ComposeAnyInsert_ConsumesBoth(lhs, rhs) ==
    [lhs |-> split(lhs, rhs).lhs.rest, rhs |-> DefaultInsert, out |-> rhs]

\* Compose<&mut Insert> for U (any left-hand side): take(rhs)
ComposeAnyInsert(lhs, rhs) ==
    [lhs |-> lhs, rhs |-> DefaultInsert, out |-> rhs]


\* Faulty variant of ComposeDeleteRetain: Bob's Retain is consumed along with Alice's
\* Delete, as if the deleted elements were still there to retain.
ComposeDeleteRetain_SplitsBoth(lhs, rhs) ==
    LET s == split(lhs, rhs) IN
    [lhs |-> s.lhs.rest, rhs |-> s.rhs.rest, out |-> s.lhs.prefix]

\* Compose<&mut Retain> for &mut Delete: take(self)
ComposeDeleteRetain(lhs, rhs) ==
    [lhs |-> DefaultDelete, rhs |-> rhs, out |-> lhs]

\* Faulty variant of ComposeDeleteDelete: the two Deletes are aligned and
\* both consumed, as if Bob deleted what Alice had already deleted.
ComposeDeleteDelete_SplitsBoth(lhs, rhs) ==
    LET s == split(lhs, rhs) IN
    [lhs |-> s.lhs.rest, rhs |-> s.rhs.rest, out |-> s.lhs.prefix]

\* Compose<&mut Delete> for &mut Delete: take(self)
ComposeDeleteDelete(lhs, rhs) ==
    [lhs |-> DefaultDelete, rhs |-> rhs, out |-> lhs]

\* Compose<&mut Op> for &mut Op
ComposeOp(lhs, rhs) ==
    CASE lhs.type = "Insert" /\ rhs.type = "Insert" -> ComposeAnyInsert(lhs, rhs)
      [] lhs.type = "Insert" /\ rhs.type = "Retain" -> ComposeInsertRetain(lhs, rhs)
      [] lhs.type = "Insert" /\ rhs.type = "Delete" -> ComposeInsertDelete(lhs, rhs)
      [] lhs.type = "Retain" /\ rhs.type = "Insert" -> ComposeAnyInsert(lhs, rhs)
      [] lhs.type = "Retain" /\ rhs.type = "Retain" -> ComposeRetainRetain(lhs, rhs)
      [] lhs.type = "Retain" /\ rhs.type = "Delete" -> ComposeRetainDelete(lhs, rhs)
      [] lhs.type = "Delete" /\ rhs.type = "Insert" -> ComposeAnyInsert(lhs, rhs)
      [] lhs.type = "Delete" /\ rhs.type = "Retain" -> ComposeDeleteRetain(lhs, rhs)
      [] lhs.type = "Delete" /\ rhs.type = "Delete" -> ComposeDeleteDelete(lhs, rhs)

\* ------------------------------------------------------------ transform.rs

\* Faulty variant of TransformInsertInsert: with priority, the Retain that
\* skips Alice's text carries her insert's attributes.
TransformInsertInsert_KeepsAttributes(lhs, rhs, priority) ==
    IF priority
    THEN [lhs |-> DefaultInsert, rhs |-> rhs,
          out |-> Retain(len(lhs), lhs.attributes)]
    ELSE [lhs |-> lhs, rhs |-> DefaultInsert, out |-> rhs]

\* Faulty variant of TransformInsertInsert: Alice's insert always goes first,
\* whatever the priority.
TransformInsertInsert_AliceFirst(lhs, rhs, priority) ==
    [lhs |-> DefaultInsert, rhs |-> rhs, out |-> as_retain(lhs)]

\* Transform<&mut Insert> for &mut Insert
TransformInsertInsert(lhs, rhs, priority) ==
    IF priority
    THEN [lhs |-> DefaultInsert, rhs |-> rhs, out |-> as_retain(lhs)]
    ELSE [lhs |-> lhs, rhs |-> DefaultInsert, out |-> rhs]

\* Transform<&mut Retain> for &mut Insert
TransformInsertRetain(lhs, rhs, priority) ==
    [lhs |-> DefaultInsert, rhs |-> rhs, out |-> as_retain(lhs)]

\* Faulty variant of TransformInsertDelete: the Insert and the Delete are
\* aligned and both consumed, as if Bob deleted Alice's new text.
TransformInsertDelete_ConsumesDelete(lhs, rhs, priority) ==
    LET s == split(lhs, rhs) IN
    [lhs |-> s.lhs.rest, rhs |-> s.rhs.rest, out |-> as_retain(s.lhs.prefix)]

\* Transform<&mut Delete> for &mut Insert
TransformInsertDelete(lhs, rhs, priority) ==
    [lhs |-> DefaultInsert, rhs |-> rhs, out |-> as_retain(lhs)]

\* Transform<&mut Insert> for &mut Retain
TransformRetainInsert(lhs, rhs, priority) ==
    [lhs |-> lhs, rhs |-> DefaultInsert, out |-> rhs]


\* Faulty variant of TransformRetainRetain: the attributes of the two Retains
\* are merged with the attribute compose operation.
TransformRetainRetain_Composes(lhs, rhs, priority) ==
    LET s == split(lhs, rhs) IN
    [lhs |-> s.lhs.rest, rhs |-> s.rhs.rest,
     out |-> Retain(len(s.lhs.prefix),
                    ComposeOption(s.lhs.prefix.attributes, s.rhs.prefix.attributes))]

\* Faulty variant of TransformRetainRetain: the left attributes always win, whatever
\* the priority.
TransformRetainRetain_IgnoresPriority(lhs, rhs, priority) ==
    LET s == split(lhs, rhs) IN
    [lhs |-> s.lhs.rest, rhs |-> s.rhs.rest, out |-> or(s.lhs.prefix, s.rhs.prefix)]

\* Transform<&mut Retain> for &mut Retain
TransformRetainRetain(lhs, rhs, priority) ==
    LET s == split(lhs, rhs) IN
    [lhs |-> s.lhs.rest, rhs |-> s.rhs.rest,
     out |-> IF priority THEN or(s.lhs.prefix, s.rhs.prefix)
                         ELSE or(s.rhs.prefix, s.lhs.prefix)]

\* Transform<&mut Delete> for &mut Retain
TransformRetainDelete(lhs, rhs, priority) ==
    LET s == split(lhs, rhs) IN
    [lhs |-> s.lhs.rest, rhs |-> s.rhs.rest, out |-> s.rhs.prefix]

\* Faulty variant of TransformDeleteInsert: Bob's Insert is consumed without
\* being emitted.
TransformDeleteInsert_DropsInsert(lhs, rhs, priority) ==
    [lhs |-> lhs, rhs |-> DefaultInsert, out |-> DefaultDelete]

\* Transform<&mut Insert> for &mut Delete
TransformDeleteInsert(lhs, rhs, priority) ==
    [lhs |-> lhs, rhs |-> DefaultInsert, out |-> rhs]

\* Transform<&mut Retain> for &mut Delete
TransformDeleteRetain(lhs, rhs, priority) ==
    LET s == split(lhs, rhs) IN
    [lhs |-> s.lhs.rest, rhs |-> s.rhs.rest, out |-> DefaultDelete]

\* Transform<&mut Delete> for &mut Delete
TransformDeleteDelete(lhs, rhs, priority) ==
    LET s == split(lhs, rhs) IN
    [lhs |-> s.lhs.rest, rhs |-> s.rhs.rest, out |-> DefaultDelete]

\* Transform<&mut Op> for &mut Op
TransformOp(lhs, rhs, priority) ==
    CASE lhs.type = "Insert" /\ rhs.type = "Insert" -> TransformInsertInsert(lhs, rhs, priority)
      [] lhs.type = "Insert" /\ rhs.type = "Retain" -> TransformInsertRetain(lhs, rhs, priority)
      [] lhs.type = "Insert" /\ rhs.type = "Delete" -> TransformInsertDelete(lhs, rhs, priority)
      [] lhs.type = "Retain" /\ rhs.type = "Insert" -> TransformRetainInsert(lhs, rhs, priority)
      [] lhs.type = "Retain" /\ rhs.type = "Retain" -> TransformRetainRetain(lhs, rhs, priority)
      [] lhs.type = "Retain" /\ rhs.type = "Delete" -> TransformRetainDelete(lhs, rhs, priority)
      [] lhs.type = "Delete" /\ rhs.type = "Insert" -> TransformDeleteInsert(lhs, rhs, priority)
      [] lhs.type = "Delete" /\ rhs.type = "Retain" -> TransformDeleteRetain(lhs, rhs, priority)
      [] lhs.type = "Delete" /\ rhs.type = "Delete" -> TransformDeleteDelete(lhs, rhs, priority)

\* ------------------------------------------------- the lockstep walk (iter.rs)
\* The closure handed to zip_mut: |a, b| a.compose(b) or
\* |a, b| a.transform(b, priority).
map_fn(kind, a, b, priority) ==
    IF kind = "compose" THEN ComposeOp(a, b) ELSE TransformOp(a, b, priority)

\* The item of the zipped stream once the map function has run on the two ops
\* handed out: r holds the ops as the map function left them and its output.
ZipItem(s, o, r) ==
    [self  |-> [s EXCEPT !.partial = Some(r.lhs)],
     other |-> [o EXCEPT !.partial = Some(r.rhs)],
     item  |-> Some(r.out)]

\* Faulty variant of ZipMatch: when self is exhausted the zipped stream goes
\* on with the ops of other, as a zip over the longer of the two would.
ZipMatch_OutlivesSelf(s, o, kind, priority) ==
    IF s.partial # None /\ o.partial # None
    THEN ZipItem(s, o, map_fn(kind, s.partial[1], o.partial[1], priority))
    ELSE IF o.partial # None
    THEN [self |-> s, other |-> [o EXCEPT !.partial = None], item |-> o.partial]
    ELSE [self |-> s, other |-> o, item |-> None]

\* The match inside the closure of Iter::zip_mut, on the iterators s and o as
\* the two next_mut calls left them.
ZipMatch(s, o, kind, priority) ==
    IF s.partial # None /\ o.partial # None
    THEN ZipItem(s, o, map_fn(kind, s.partial[1], o.partial[1], priority))
    ELSE [self |-> s, other |-> o, item |-> None]

\* One call of the closure inside Iter::zip_mut: both next_mut calls are made,
\* and the map function runs only when both hand out an op.
ZipNext(self, other, kind, priority) ==
    ZipMatch(next_mut(self), next_mut(other), kind, priority)

RECURSIVE zip_mut(_, _, _, _, _)

\* for_each in Delta::extend over the zipped stream: z is what the stream
\* yields next; an item is pushed and the stream polled again.
ZipExtend(result, z, kind, priority) ==
    IF z.item = None
    THEN [result |-> result, self |-> z.self, other |-> z.other]
    ELSE zip_mut(push(result, z.item[1]), z.self, z.other, kind, priority)

\* result.extend(self_iter.zip_mut(&mut other_iter, map_fn)): the delta and
\* the two iterators when the zipped stream ends.
zip_mut(result, self, other, kind, priority) ==
    ZipExtend(result, ZipNext(self, other, kind, priority), kind, priority)


\* result.extend(self_iter.chain(other_iter)), on what zip_mut left.
ExtendChain(z) == extend(z.result, drain(z.self) \o drain(z.other))

\* result.extend(other_iter), on what zip_mut left.
ExtendOther(z) == extend(z.result, drain(z.other))

\* Faulty variant of ComposeResult: the rest of rhs is not appended after the zipped
\* stream; what is left of it is lost.
ComposeResult_SelfTailOnly(self, rhs) ==
    zip_mut(<<>>, IterNew(self), IterNew(rhs), "compose", FALSE).result

\* Compose<Delta> for Delta, up to the final chop: the zipped stream, then
\* self_iter.chain(other_iter).
ComposeResult(self, rhs) ==
    ExtendChain(zip_mut(<<>>, IterNew(self), IterNew(rhs), "compose", FALSE))

\* Compose<Delta> for Delta
compose(self, rhs) == chop(ComposeResult(self, rhs))

\* Faulty variant of TransformResult: after the zipped stream both tails are
\* drained, as compose does.
TransformResult_DrainsBoth(self, rhs, priority) ==
    ExtendChain(zip_mut(<<>>, IterNew(self), IterNew(rhs), "transform", priority))

\* Transform<Delta> for Delta, up to the final chop: the zipped stream, then
\* other_iter alone.
TransformResult(self, rhs, priority) ==
    ExtendOther(zip_mut(<<>>, IterNew(self), IterNew(rhs), "transform", priority))

\* Transform<Delta> for Delta
transform(self, rhs, priority) == chop(TransformResult(self, rhs, priority))

\* ------------------------------------- transform.rs, Transform<usize> for &Delta
\* The loop state of the positional transform: index and offset are usize
\* values; fault is the first arithmetic fault met, "none", "add" (an
\* addition past usize::MAX) or "sub" (a subtraction below 0).  A build with
\* overflow checks panics at the fault; a build without them goes on with the
\* wrapped value.
Fault(st, add, sub) ==
    IF st.fault # "none" THEN st.fault
    ELSE IF add THEN "add" ELSE IF sub THEN "sub" ELSE "none"

\* Op::Insert arm
PositionInsert(st, insert, priority) ==
    LET moves == st.offset < st.index \/ ~priority IN
    [index  |-> IF moves THEN (st.index + len(insert)) % Pow2(Width) ELSE st.index,
     offset |-> (st.offset + len(insert)) % Pow2(Width),
     fault  |-> Fault(st, \/ moves /\ st.index + len(insert) > N_MAX
                          \/ st.offset + len(insert) > N_MAX, FALSE)]

\* Op::Retain arm
PositionRetain(st, retain) ==
    [index  |-> st.index,
     offset |-> (st.offset + len(retain)) % Pow2(Width),
     fault  |-> Fault(st, st.offset + len(retain) > N_MAX, FALSE)]

\* Op::Delete arm: index -= min(delete.len(), index - offset)
PositionDelete(st, delete) ==
    LET gap == (st.index - st.offset) % Pow2(Width) IN
    [index  |-> (st.index - min(len(delete), gap)) % Pow2(Width),
     offset |-> st.offset,
     fault  |-> Fault(st, FALSE, \/ st.offset > st.index
                                 \/ min(len(delete), gap) > st.index)]

\* The match on the op
PositionOp(st, op, priority) ==
    CASE op.type = "Insert" -> PositionInsert(st, op, priority)
      [] op.type = "Retain" -> PositionRetain(st, op)
      [] op.type = "Delete" -> PositionDelete(st, op)

\* The while loop: ends when the ops are exhausted, at the break, or at the
\* panic of a build with overflow checks.
RECURSIVE PositionLoop(_, _, _, _, _)
PositionLoop(ops, st, rhs, priority, overflow_checks) ==
    IF ops = <<>> \/ st.offset > rhs \/ (overflow_checks /\ st.fault # "none")
    THEN st
    ELSE PositionLoop(Tail(ops), PositionOp(st, Head(ops), priority),
                      rhs, priority, overflow_checks)

\* Transform<usize> for &Delta: the loop state at the end.
PositionResult(self, rhs, priority, overflow_checks) ==
    PositionLoop(self, [index |-> rhs, offset |-> 0, fault |-> "none"],
                 rhs, priority, overflow_checks)

\* What the call hands back in the loop state st: Some(index), or None when
\* it panicked.
Returned(st, overflow_checks) ==
    IF overflow_checks /\ st.fault # "none" THEN None ELSE Some(st.index)

\* Transform<usize> for &Delta
transform_index(self, rhs, priority, overflow_checks) ==
    Returned(PositionResult(self, rhs, priority, overflow_checks), overflow_checks)

\* ------------------------------------------------------ the end-to-end run
\* fuzz/fuzz_targets/end_to_end.rs: three deltas are collected from ops by
\* push; the base is composed with alice and with bob, each is transformed
\* against the other, and the two results are composed and compared.
\*   before, alice, bob   the three collected deltas
\*   pushes               the number of Delta::push calls made so far
\*   before_alice         before.compose(alice)
\*   before_bob           before.compose(bob)
\*   bob_t                alice.transform(bob, true)
\*   alice_t              bob.transform(alice, false)
\*   alice_bob, bob_alice the two sides of the final assert_eq!
\*   pc                   "build", "composed", "transformed", "done",
\*                        or "positioned" after a positional transform
\*   positional           None, or Some of the positional transform made on
\*                        alice: its arguments, the build, what it returned
\*                        (None for a panic) and the first arithmetic fault
VARIABLES before, alice, bob, pushes, before_alice, before_bob, bob_t, alice_t,
          alice_bob, bob_alice, pc, positional, cursor, yielded

vars == <<before, alice, bob, pushes, before_alice, before_bob, bob_t, alice_t,
          alice_bob, bob_alice, pc, positional, cursor, yielded>>

\* Inputs of push: attributes, counts and values.  Each delta inserts its own
\* element, so that the order of concurrent inserts shows in the result.
Attributes == {None, Some(1), Some(2)}
Counts == {0, 1, 2, N_MAX}
Values(c) == {<<>>, <<c>>}

Ops(c) ==
    {Insert(v, a) : v \in Values(c), a \in Attributes}
    \cup {Retain(n, a) : n \in Counts, a \in Attributes}
    \cup {Delete(n) : n \in Counts}

Init ==
    /\ before = <<>>
    /\ alice = <<>>
    /\ bob = <<>>
    /\ pushes = 0
    /\ before_alice = <<>>
    /\ before_bob = <<>>
    /\ bob_t = <<>>
    /\ alice_t = <<>>
    /\ alice_bob = <<>>
    /\ bob_alice = <<>>
    /\ pc = "build"
    /\ positional = None
    /\ cursor = IterNew(<<>>)
    /\ yielded = <<>>

outputs == <<before_alice, before_bob, bob_t, alice_t, alice_bob, bob_alice,
             positional, cursor, yielded>>

PushBefore(op) ==
    /\ pc = "build"
    /\ pushes < MaxPushes
    /\ before' = push(before, op)
    /\ pushes' = pushes + 1
    /\ UNCHANGED <<alice, bob, outputs, pc>>

PushAlice(op) ==
    /\ pc = "build"
    /\ pushes < MaxPushes
    /\ alice' = push(alice, op)
    /\ pushes' = pushes + 1
    /\ UNCHANGED <<before, bob, outputs, pc>>

PushBob(op) ==
    /\ pc = "build"
    /\ pushes < MaxPushes
    /\ bob' = push(bob, op)
    /\ pushes' = pushes + 1
    /\ UNCHANGED <<before, alice, outputs, pc>>

\* before.compose(alice) and before.compose(bob)
ComposeBase ==
    /\ pc = "build"
    /\ before_alice' = compose(before, alice)
    /\ before_bob' = compose(before, bob)
    /\ pc' = "composed"
    /\ UNCHANGED <<before, alice, bob, pushes, bob_t, alice_t, alice_bob, bob_alice,
                   positional, cursor, yielded>>

\* alice.transform(bob, true) and bob.transform(alice, false)
TransformBoth ==
    /\ pc = "composed"
    /\ bob_t' = transform(alice, bob, TRUE)
    /\ alice_t' = transform(bob, alice, FALSE)
    /\ pc' = "transformed"
    /\ UNCHANGED <<before, alice, bob, pushes, before_alice, before_bob,
                   alice_bob, bob_alice, positional, cursor, yielded>>

\* The outer compose calls of alice_bob and bob_alice.
ComposeBoth ==
    /\ pc = "transformed"
    /\ alice_bob' = compose(before_alice, bob_t)
    /\ bob_alice' = compose(before_bob, alice_t)
    /\ pc' = "done"
    /\ UNCHANGED <<before, alice, bob, pushes, before_alice, before_bob,
                   bob_t, alice_t, positional, cursor, yielded>>

Next ==
    \/ \E op \in Ops("d") : PushBefore(op)
    \/ \E op \in Ops("a") : PushAlice(op)
    \/ \E op \in Ops("b") : PushBob(op)
    \/ ComposeBase
    \/ TransformBoth
    \/ ComposeBoth

Spec == Init /\ [][Next]_vars

\* ------------------------------------------- a positional transform on alice
\* (&alice).transform(rhs, priority), in a build with or without overflow
\* checks.
TransformIndex(rhs, priority, overflow_checks) ==
    /\ pc = "build"
    /\ positional' =
           LET st == PositionResult(alice, rhs, priority, overflow_checks) IN
           Some([rhs |-> rhs, priority |-> priority,
                 overflow_checks |-> overflow_checks,
                 returned |-> Returned(st, overflow_checks),
                 fault |-> st.fault])
    /\ pc' = "positioned"
    /\ UNCHANGED <<before, alice, bob, pushes, before_alice, before_bob,
                   bob_t, alice_t, alice_bob, bob_alice, cursor, yielded>>

Indices == 0..N_MAX

NextIndex ==
    \/ \E op \in Ops("a") : PushAlice(op)
    \/ \E rhs \in Indices, priority \in BOOLEAN, overflow_checks \in BOOLEAN :
           TransformIndex(rhs, priority, overflow_checks)

SpecIndex == Init /\ [][NextIndex]_vars

\* ------------------------------------------------- an iterator over alice
\* alice.into_iter()
IntoIter ==
    /\ pc = "build"
    /\ cursor' = IterNew(alice)
    /\ pc' = "iterating"
    /\ UNCHANGED <<before, alice, bob, pushes, before_alice, before_bob,
                   bob_t, alice_t, alice_bob, bob_alice, positional, yielded>>

\* cursor.next_mut(), and the caller splits n off the op handed out, as the
\* combiners of compose and transform do.  yielded records what the caller
\* has received.
NextMut(n) ==
    /\ pc = "iterating"
    /\ LET handed == next_mut(cursor) IN
       IF handed.partial = None
       THEN /\ cursor' = handed
            /\ UNCHANGED yielded
       ELSE LET s == SplitOp(handed.partial[1], n) IN
            /\ cursor' = [handed EXCEPT !.partial = Some(s.rest)]
            /\ yielded' = IF len(s.prefix) = 0 THEN yielded
                          ELSE Append(yielded, s.prefix)
    /\ UNCHANGED <<before, alice, bob, pushes, before_alice, before_bob,
                   bob_t, alice_t, alice_bob, bob_alice, positional, pc>>

\* cursor.next()
IterNext ==
    /\ pc = "iterating"
    /\ LET n == next(cursor) IN
       /\ cursor' = n.self
       /\ yielded' = IF n.item = None THEN yielded ELSE Append(yielded, n.item[1])
    /\ UNCHANGED <<before, alice, bob, pushes, before_alice, before_bob,
                   bob_t, alice_t, alice_bob, bob_alice, positional, pc>>

NextIter ==
    \/ \E op \in Ops("a") : PushAlice(op)
    \/ IntoIter
    \/ \E n \in 0..N_MAX : NextMut(n)
    \/ IterNext

SpecIter == Init /\ [][NextIter]_vars

\* ------------------------------------------------------------------ claims
\* The deltas built by push alone, and the outputs of compose and transform
\* on them.
PushBuilt == {before, alice, bob}

Outputs == {before_alice, before_bob, bob_t, alice_t, alice_bob, bob_alice}

HasType(d, t) == \E i \in 1..Len(d) : d[i].type = t

IsBareRetain(op) == op.type = "Retain" /\ op.attributes = None

\* C1: OT convergence.  Once the end-to-end run is done, applying alice and
\* then bob transformed against alice (alice has priority) gives the same
\* delta as applying bob and then alice transformed against bob.
Convergence == pc = "done" => alice_bob = bob_alice

\* C1 witness: a finished run over a non-empty base in which alice and bob
\* both insert, so that the transformed bob differs from bob.
ConvergenceWitness ==
    /\ pc = "done"
    /\ before # <<>>
    /\ HasType(alice, "Insert")
    /\ HasType(bob, "Insert")
    /\ bob_t # bob
    /\ alice_bob = bob_alice
    /\ HasType(alice_bob, "Insert")

\* C2: base-free transform law.  For either priority, alice followed by bob
\* transformed against alice equals bob followed by alice transformed
\* against bob with the opposite priority.
TransformLaw ==
    \A priority \in BOOLEAN :
        compose(alice, transform(alice, bob, priority))
            = compose(bob, transform(bob, alice, ~priority))

\* C2 witness: alice and bob retain the same element with different
\* attributes, so the priority decides the transformed attributes.
TransformLawWitness ==
    /\ \E i \in 1..Len(alice) : alice[i].type = "Retain" /\ alice[i].attributes = Some(1)
    /\ \E i \in 1..Len(bob) : bob[i].type = "Retain" /\ bob[i].attributes = Some(2)
    /\ transform(alice, bob, TRUE) # transform(alice, bob, FALSE)
    /\ compose(alice, transform(alice, bob, TRUE)) # <<>>

\* A document: a delta made only of Inserts.
IsDocument(d) == \A i \in 1..Len(d) : d[i].type = "Insert"

\* C3: compose is sequential application.  On a document, applying alice and
\* then bob equals applying compose(alice, bob).
SequentialApplication ==
    IsDocument(before) =>
        compose(compose(before, alice), bob) = compose(before, compose(alice, bob))

\* C3 witness: a non-empty document, alice deletes from it and bob changes
\* what is left.
SequentialApplicationWitness ==
    /\ before # <<>>
    /\ IsDocument(before)
    /\ HasType(alice, "Delete")
    /\ bob # <<>>
    /\ compose(compose(before, alice), bob) # compose(before, alice)
    /\ compose(before, alice) # before

\* C4: no zero-length op.  No delta built by push and no output of compose or
\* transform holds an op of length 0, and pushing an op of length 0 changes
\* nothing.
NoZeroLengthOp ==
    /\ \A d \in PushBuilt \cup Outputs : \A i \in 1..Len(d) : len(d[i]) > 0
    /\ \A d \in PushBuilt : \A op \in Ops("z") : len(op) = 0 => push(d, op) = d

\* C4 witness: three pushes made two one-op deltas (one push was of length 0
\* and dropped), and composing them drops the zero-length Delete that
\* Insert x Delete emits.
NoZeroLengthOpWitness ==
    /\ pc = "done"
    /\ pushes = 3
    /\ Len(before) = 1 /\ before[1].type = "Insert" /\ len(before[1]) = 1
    /\ alice = <<>>
    /\ bob = <<Delete(1)>>
    /\ before_bob = <<>>

\* Adjacent ops that push would merge: same variant, equal attributes.
Mergeable(a, b) ==
    /\ a.type = b.type
    /\ a.type # "Delete" => a.attributes = b.attributes

\* C5 as claimed: no two adjacent ops of the same variant with equal
\* attributes, in any delta built by push or output of compose / transform.
NoMergeableNeighbours ==
    \A d \in PushBuilt \cup Outputs :
        \A i \in 1..(Len(d) - 1) : ~Mergeable(d[i], d[i + 1])

\* C5 amended: two adjacent ops are of the same variant with equal attributes
\* only when the first is a Retain or Delete whose count is saturated at
\* N_MAX (the second then carries the remainder of an overflowing merge).
NoMergeableNeighboursUnlessSaturated ==
    \A d \in PushBuilt \cup Outputs :
        \A i \in 1..(Len(d) - 1) :
            Mergeable(d[i], d[i + 1]) =>
                /\ d[i].type \in {"Retain", "Delete"}
                /\ len(d[i]) = N_MAX

\* C5 witness: alice holds a saturated Retain followed by the remainder, and
\* an Insert merged from two pushes.
NoMergeableNeighboursWitness ==
    /\ Len(alice) = 2
    /\ alice[1].type = "Retain" /\ alice[1].retain = N_MAX
    /\ alice[2].type = "Retain" /\ alice[2].attributes = alice[1].attributes
    /\ Len(bob) = 1 /\ bob[1].type = "Insert"

\* The number of Deletes at the end of a delta.
RECURSIVE TrailingDeletes(_)
TrailingDeletes(d) ==
    IF d # <<>> /\ Last(d).type = "Delete" THEN 1 + TrailingDeletes(Front(d)) ELSE 0

\* What pushing the Insert op onto a delta that ends in Delete must give: the
\* Insert goes in front of the trailing Deletes, merged into the Insert there
\* when the attributes are equal, and the Deletes stay as they were.
InsertBeforeDelete(d, op) ==
    LET k == TrailingDeletes(d)
        head == SubSeq(d, 1, Len(d) - k)
        deletes == SubSeq(d, Len(d) - k + 1, Len(d))
    IN  IF head # <<>> /\ Last(head).type = "Insert"
           /\ Last(head).attributes = op.attributes
        THEN Append(Front(head), Insert(Last(head).insert \o op.insert, op.attributes))
                 \o deletes
        ELSE Append(head, op) \o deletes

\* C6: a Delete never immediately precedes an Insert, and pushing an Insert
\* onto a delta that ends in Delete puts the Insert before the Delete.
DeleteNeverBeforeInsert ==
    /\ \A d \in PushBuilt \cup Outputs :
           \A i \in 1..(Len(d) - 1) :
               ~(d[i].type = "Delete" /\ d[i + 1].type = "Insert")
    /\ \A d \in PushBuilt : \A op \in Ops("z") :
           (d # <<>> /\ Last(d).type = "Delete" /\ op.type = "Insert" /\ len(op) > 0)
               => push(d, op) = InsertBeforeDelete(d, op)

\* C6 witness: alice is an Insert followed by a Delete, so that pushing an
\* Insert with the same attributes merges in front of the Delete.
DeleteNeverBeforeInsertWitness ==
    /\ Len(alice) = 2
    /\ alice[1].type = "Insert"
    /\ alice[2].type = "Delete"
    /\ push(alice, Insert(<<"z">>, alice[1].attributes))
           = <<Insert(alice[1].insert \o <<"z">>, alice[1].attributes), alice[2]>>

\* c is d with all its trailing bare Retains removed and nothing else.
Chopped(d, c) ==
    /\ Len(c) <= Len(d)
    /\ c = SubSeq(d, 1, Len(c))
    /\ \A i \in (Len(c) + 1)..Len(d) : IsBareRetain(d[i])
    /\ c # <<>> => ~IsBareRetain(Last(c))

\* C7: chop.  No output of compose or transform ends with a bare Retain; chop
\* removes all the trailing bare Retains and nothing else.
Chop ==
    /\ \A d \in Outputs : d # <<>> => ~IsBareRetain(Last(d))
    /\ \A d \in PushBuilt : Chopped(d, chop(d))
    /\ pc # "build" =>
           /\ Chopped(ComposeResult(before, alice), before_alice)
           /\ Chopped(ComposeResult(before, bob), before_bob)
    /\ pc \in {"transformed", "done"} =>
           /\ Chopped(TransformResult(alice, bob, TRUE), bob_t)
           /\ Chopped(TransformResult(bob, alice, FALSE), alice_t)
    /\ pc = "done" =>
           /\ Chopped(ComposeResult(before_alice, bob_t), alice_bob)
           /\ Chopped(ComposeResult(before_bob, alice_t), bob_alice)

\* C7 witness: before compose chops it, the result ends with two bare
\* Retains (a saturated one and its remainder) after another op.
ChopWitness ==
    LET r == ComposeResult(before, alice) IN
    /\ pc = "composed"
    /\ Len(r) = 3
    /\ IsBareRetain(r[2]) /\ IsBareRetain(r[3])
    /\ before_alice = <<r[1]>>

\* C8: canonicalization idempotence.  Iterating a delta built by push and
\* pushing its ops into a new delta gives the same delta.
CanonicalizationIdempotence ==
    \A d \in PushBuilt : from_iter(drain(IterNew(d))) = d

\* C8 witness: alice holds an Insert in front of a Delete saturated at N_MAX
\* and the Delete that carries the remainder.
CanonicalizationIdempotenceWitness ==
    /\ Len(alice) = 3
    /\ alice[1].type = "Insert"
    /\ alice[2] = Delete(N_MAX)
    /\ alice[3].type = "Delete"
    /\ from_iter(drain(IterNew(alice))) = alice

\* C9 as claimed: compose(D, empty) = D for every delta built by push.
ComposeRightIdentity == \A d \in PushBuilt : compose(d, <<>>) = d

\* C9 amended: compose(D, empty) = D.chop(); it is D when D does not end with
\* a bare Retain.
ComposeRightIdentityUpToChop ==
    \A d \in PushBuilt :
        /\ compose(d, <<>>) = chop(d)
        /\ (d = <<>> \/ ~IsBareRetain(Last(d))) => compose(d, <<>>) = d

\* C9 witness: alice has two ops and does not end with a bare Retain; bob
\* ends with a bare Retain.
ComposeRightIdentityWitness ==
    /\ Len(alice) = 2 /\ ~IsBareRetain(alice[2])
    /\ compose(alice, <<>>) = alice
    /\ bob # <<>> /\ IsBareRetain(Last(bob))
    /\ compose(bob, <<>>) # bob

\* C10: compose(empty, D) = D.chop(): D without its trailing bare Retains and
\* otherwise unchanged.
ComposeLeftIdentityUpToChop ==
    \A d \in PushBuilt :
        /\ compose(<<>>, d) = chop(d)
        /\ Chopped(d, compose(<<>>, d))

\* C10 witness: bob has an op with attributes followed by a bare Retain,
\* which compose(empty, bob) removes.
ComposeLeftIdentityWitness ==
    /\ Len(bob) = 2
    /\ ~IsBareRetain(bob[1])
    /\ IsBareRetain(bob[2])
    /\ compose(<<>>, bob) = <<bob[1]>>

\* The sum of the lengths of the ops of a delta, as an unbounded integer.
RECURSIVE TotalLen(_)
TotalLen(d) == IF d = <<>> THEN 0 ELSE len(Head(d)) + TotalLen(Tail(d))

\* op is a Retain or a Delete that push merges into the last op of d.
MergesCount(d, op) ==
    /\ d # <<>>
    /\ len(op) > 0
    /\ \/ op.type = "Retain" /\ Last(d).type = "Retain"
          /\ Last(d).attributes = op.attributes
       \/ op.type = "Delete" /\ Last(d).type = "Delete"

\* op with its count replaced by n.
WithCount(op, n) ==
    IF op.type = "Retain" THEN Retain(n, op.attributes) ELSE Delete(n)

\* C11: count saturation on merge.  When a Retain (equal attributes) or a
\* Delete with count b is pushed onto a last op of the same kind with count a
\* and a + b exceeds N_MAX, the last op becomes N_MAX and an op of the same
\* kind and attributes with count a + b - N_MAX is appended; otherwise the
\* last op becomes a + b.  The sum of the counts is preserved and every count
\* stays within 1..N_MAX.
CountSaturation ==
    \A d \in PushBuilt : \A op \in Ops("z") :
        MergesCount(d, op) =>
            LET a == len(Last(d))
                b == len(op)
                r == push(d, op)
            IN  /\ a + b > N_MAX =>
                    r = Front(d) \o <<WithCount(op, N_MAX),
                                      WithCount(op, a + b - N_MAX)>>
                /\ a + b <= N_MAX => r = Append(Front(d), WithCount(op, a + b))
                /\ TotalLen(r) = TotalLen(d) + b
                /\ \A i \in 1..Len(r) : len(r[i]) \in 1..N_MAX

\* Two pushes have left alice as a saturated Retain and the remainder of the
\* overflowing sum.
CountSaturationWitness ==
    /\ pushes = 2
    /\ alice = <<Retain(N_MAX, Some(1)), Retain(1, Some(1))>>
    /\ MergesCount(alice, Retain(N_MAX, Some(1)))
    /\ push(alice, Retain(N_MAX, Some(1))) =
           <<Retain(N_MAX, Some(1)), Retain(N_MAX, Some(1)), Retain(1, Some(1))>>

\* The ops held by the push-built deltas.
HeldOps == UNION {{d[i] : i \in 1..Len(d)} : d \in PushBuilt}

\* The ops held by the push-built deltas, and the ops push can be given
\* (zero-length ones included).
OpsAtHand == Ops("z") \cup HeldOps

\* The count of a Retain or a Delete.
CountOf(op) == IF op.type = "Retain" THEN op.retain ELSE op.delete

\* C12: Op::split partitions the op.  For every op and every k, split(k)
\* returns a prefix of the same variant of length m = min(k, len(op)) and
\* leaves a suffix of the same variant of length len(op) - m; the values of
\* an Insert concatenate to the original value, the counts of a Retain or a
\* Delete sum to the original count, and both halves carry the original
\* attributes.
SplitPartitions ==
    \A op \in OpsAtHand : \A k \in 0..N_MAX :
        LET s == SplitOp(op, k)
            m == min(k, len(op))
        IN  /\ s.prefix.type = op.type
            /\ s.rest.type = op.type
            /\ len(s.prefix) = m
            /\ len(s.rest) = len(op) - m
            /\ op.type = "Insert" => s.prefix.insert \o s.rest.insert = op.insert
            /\ op.type # "Insert" => CountOf(s.prefix) + CountOf(s.rest) = CountOf(op)
            /\ op.type # "Delete" =>
                   /\ s.prefix.attributes = op.attributes
                   /\ s.rest.attributes = op.attributes

\* A two-element Insert of before has been split in the middle by compose
\* against alice's Retain of one element, and splitting it again gives the
\* same halves.
SplitPartitionsWitness ==
    /\ pc = "composed"
    /\ before = <<Insert(<<"d", "d">>, Some(1))>>
    /\ alice = <<Retain(1, Some(2))>>
    /\ before_alice = <<Insert(<<"d">>, Some(2)), Insert(<<"d">>, Some(1))>>
    /\ SplitOp(before[1], 1) = [prefix |-> Insert(<<"d">>, Some(1)),
                                rest   |-> Insert(<<"d">>, Some(1))]
    /\ SplitOp(alice[1], N_MAX) = [prefix |-> alice[1],
                                   rest   |-> Retain(0, Some(2))]

\* ---------------------------------------------------- positional transform
\* The sum of the lengths of the ops of d before position k whose variant is
\* in types, as an unbounded integer.
RECURSIVE LenBefore(_, _, _)
LenBefore(d, k, types) ==
    IF k <= 1 THEN 0
    ELSE LenBefore(d, k - 1, types)
         + (IF d[k - 1].type \in types THEN len(d[k - 1]) ELSE 0)

\* d[k] is an Insert and every op before it is a Retain.
InsertAfterRetains(d, k) ==
    /\ d[k].type = "Insert"
    /\ \A i \in 1..(k - 1) : d[i].type = "Retain"

\* C13: positional transform tie-break.  When the ops of the delta before an
\* Insert of length L are Retains totalling exactly the index given, the call
\* returns the index with priority and the index plus L without priority.
CursorTieBreak ==
    positional # None =>
        LET c == positional[1] IN
        \A k \in 1..Len(alice) :
            InsertAfterRetains(alice, k) /\ LenBefore(alice, k, {"Retain"}) = c.rhs
            => c.returned = Some(IF c.priority THEN c.rhs
                                 ELSE c.rhs + len(alice[k]))

\* C14: positional transform, insert before the cursor.  For the delta
\* retain(n).insert(v) (n may be 0) and an index greater than n, the call
\* returns the index plus the length of v, with and without priority.
InsertBeforeCursor ==
    positional # None =>
        LET c == positional[1]
            k == Len(alice)
        IN  /\ k \in {1, 2}
            /\ InsertAfterRetains(alice, k)
            /\ c.rhs > LenBefore(alice, k, {"Retain"})
            => c.returned = Some(c.rhs + len(alice[k]))

\* d without its op at position k.
RemoveAt(d, k) == SubSeq(d, 1, k - 1) \o SubSeq(d, k + 1, Len(d))

\* C15: positional transform, insert after the cursor.  An Insert preceded
\* in the delta by Retain and Delete lengths summing to more than the index
\* contributes nothing: the call returns what it returns on the delta without
\* that Insert, with and without priority.
InsertAfterCursor ==
    positional # None =>
        LET c == positional[1] IN
        \A k \in 1..Len(alice) :
            /\ alice[k].type = "Insert"
            /\ LenBefore(alice, k, {"Retain", "Delete"}) > c.rhs
            => c.returned = transform_index(RemoveAt(alice, k), c.rhs,
                                            c.priority, c.overflow_checks)

\* C16: positional transform has no runtime error.  In every call on a
\* push-built delta whose additions stay within usize, whenever a Delete is
\* processed the running offset is at most the current index, so neither
\* index - offset nor the updated index falls below 0, and the call returns a
\* value.
PositionNoUnderflow ==
    positional # None /\ positional[1].fault # "add" =>
        /\ positional[1].fault # "sub"
        /\ positional[1].returned # None

\* ------------------------------------------------------------- termination
\* The length an iterator has still to hand out: its buffered op and the ops
\* upstream, as an unbounded integer.
Remaining(it) ==
    (IF it.partial # None THEN len(it.partial[1]) ELSE 0) + TotalLen(it.iter)

\* The iterator has no op left to hand out.
Exhausted(it) == next_mut(it).partial = None

\* Along the whole lockstep walk from the iterators self and other: a step
\* yields an item exactly when neither iterator is exhausted, and every step
\* that yields one leaves strictly less to hand out.
RECURSIVE WalkDecreases(_, _, _, _)
WalkDecreases(self, other, kind, priority) ==
    LET z == ZipNext(self, other, kind, priority) IN
    /\ (z.item = None) <=> (Exhausted(self) \/ Exhausted(other))
    /\ z.item # None =>
           /\ Remaining(z.self) + Remaining(z.other)
                  < Remaining(self) + Remaining(other)
           /\ WalkDecreases(z.self, z.other, kind, priority)

InsertDeleteCancels ==
    \A a \in PushBuilt : \A b \in PushBuilt :
        a # <<>> /\ b # <<>> /\ a[1].type = "Insert" /\ b[1].type = "Delete" =>
            LET z == ZipNext(IterNew(a), IterNew(b), "compose", FALSE)
                m == min(len(a[1]), len(b[1]))
            IN  /\ z.item # None
                /\ push(<<>>, z.item[1]) = <<>>
                /\ Remaining(z.self) = TotalLen(a) - m
                /\ Remaining(z.other) = TotalLen(b) - m
                /\ z.self.partial = Some(Insert(skip_n(a[1].insert, m), a[1].attributes))
                /\ z.other.partial = Some(Delete(len(b[1]) - m))
                /\ Len(a) = 1 /\ Len(b) = 1 /\ len(a[1]) = len(b[1])
                   => compose(a, b) = <<>>

\* The run has composed a one-element Insert with a Delete of one element.
InsertDeleteCancelsWitness ==
    /\ pc = "composed"
    /\ before = <<Insert(<<"d">>, Some(1))>>
    /\ alice = <<Delete(1)>>
    /\ before_alice = <<>>

\* C19: compose, Insert column.  Whenever Bob's next op is an Insert, the
\* step emits Bob's whole Insert, value and attributes, Bob's iterator moves
\* past it, and Alice's current op is left whole, whatever its variant;
\* a lone insert(v) composed with a lone insert(w) is w followed by v.
ComposeInsertColumn ==
    \A a \in PushBuilt : \A b \in PushBuilt :
        a # <<>> /\ b # <<>> /\ b[1].type = "Insert" =>
            LET z == ZipNext(IterNew(a), IterNew(b), "compose", FALSE) IN
            /\ z.item = Some(b[1])
            /\ next_mut(z.self) = [iter |-> Tail(a), partial |-> Some(a[1])]
            /\ Remaining(z.other) = TotalLen(b) - len(b[1])
            /\ next_mut(z.other) =
                   IF Len(b) = 1 THEN [iter |-> <<>>, partial |-> None]
                   ELSE [iter |-> Tail(Tail(b)), partial |-> Some(b[2])]
            /\ Len(a) = 1 /\ Len(b) = 1 /\ a[1].type = "Insert" =>
                   compose(a, b) =
                       IF a[1].attributes = b[1].attributes
                       THEN <<Insert(b[1].insert \o a[1].insert, b[1].attributes)>>
                       ELSE <<b[1], a[1]>>

\* The run has composed insert("d") with insert("a").
ComposeInsertColumnWitness ==
    /\ pc = "composed"
    /\ before = <<Insert(<<"d">>, None)>>
    /\ alice = <<Insert(<<"a">>, None)>>
    /\ before_alice = <<Insert(<<"a", "d">>, None)>>

\* The Inserts and the Deletes held by the push-built deltas.
InsertsAtHand == {op \in HeldOps : op.type = "Insert"}
DeletesAtHand == {op \in HeldOps : op.type = "Delete"}

\* The two ops as the combiner of Alice's Insert and Bob's Delete must leave
\* them: each without its first m = min of the two lengths.
BothConsumed(r, lhs, rhs) ==
    LET m == min(len(lhs), len(rhs)) IN
    /\ r.lhs = Insert(skip_n(lhs.insert, m), lhs.attributes)
    /\ r.rhs = Delete(len(rhs) - m)

\* C20 as stated: the combiner of Alice's Insert and Bob's Delete consumes
\* both ops by the aligned length m and emits a Delete of length m.
ComposeInsertDeleteEmitsAligned ==
    \A lhs \in InsertsAtHand : \A rhs \in DeletesAtHand :
        LET r == ComposeOp(lhs, rhs) IN
        /\ BothConsumed(r, lhs, rhs)
        /\ r.out = Delete(min(len(lhs), len(rhs)))

\* C20, amended: the combiner of Alice's Insert and Bob's Delete consumes
\* both ops by the aligned length m and emits a Delete of length 0, which
\* push drops.
ComposeInsertDeleteEmitsNothing ==
    \A lhs \in InsertsAtHand : \A rhs \in DeletesAtHand :
        LET r == ComposeOp(lhs, rhs) IN
        /\ BothConsumed(r, lhs, rhs)
        /\ r.out = Delete(0)
        /\ \A d \in PushBuilt : push(d, r.out) = d

\* The run has composed a two-element Insert with a Delete of one element:
\* one element of the Insert is left and no Delete appears.
ComposeInsertDeleteWitness ==
    /\ pc = "composed"
    /\ before = <<Insert(<<"d", "d">>, None)>>
    /\ alice = <<Delete(1)>>
    /\ before_alice = <<Insert(<<"d">>, None)>>
    /\ ComposeOp(before[1], alice[1]) =
           [lhs |-> Insert(<<"d">>, None), rhs |-> Delete(0), out |-> Delete(0)]

\* Alice's attributes overlaid with Bob's: an absent side is transparent, and
\* of two present last-write-wins attributes Bob's, on the right, is kept.
Overlay(alice_attributes, bob_attributes) ==
    IF bob_attributes # None THEN bob_attributes ELSE alice_attributes

\* C21: compose under Bob's Retain.  When Bob's op is a Retain and Alice's
\* an Insert or a Retain, both are consumed by the aligned length m and the
\* op emitted has Alice's variant, length m (Alice's first m elements for an
\* Insert) and Alice's attributes overlaid with Bob's.
ComposeUnderRetain ==
    \A lhs \in HeldOps : \A rhs \in HeldOps :
        lhs.type \in {"Insert", "Retain"} /\ rhs.type = "Retain" =>
            LET r == ComposeOp(lhs, rhs)
                m == min(len(lhs), len(rhs))
            IN  /\ r.out.type = lhs.type
                /\ len(r.out) = m
                /\ lhs.type = "Insert" => r.out.insert = take_n(lhs.insert, m)
                /\ r.out.attributes = Overlay(lhs.attributes, rhs.attributes)
                /\ r.lhs = IF lhs.type = "Insert"
                           THEN Insert(skip_n(lhs.insert, m), lhs.attributes)
                           ELSE Retain(len(lhs) - m, lhs.attributes)
                /\ r.rhs = Retain(len(rhs) - m, rhs.attributes)

\* The run has composed an Insert carrying an attribute with a Retain
\* carrying another one.
ComposeUnderRetainWitness ==
    /\ pc = "composed"
    /\ before = <<Insert(<<"d">>, Some(1))>>
    /\ bob = <<Retain(2, Some(2))>>
    /\ before_bob = <<Insert(<<"d">>, Some(2)), Retain(1, Some(2))>>

\* C22: the Delete row of compose.  When Alice's op is a Delete and Bob's a
\* Retain or a Delete, Alice's whole Delete is emitted and Alice advances
\* while Bob's op is not consumed at all: Bob's iterator still holds all of
\* it.  Hence two one-op Deletes compose to the sum of their counts, and a
\* Delete followed by a Retain keeps both ops, in that order.
ComposeDeleteRow ==
    \A a \in PushBuilt : \A b \in PushBuilt :
        a # <<>> /\ b # <<>> /\ a[1].type = "Delete"
                 /\ b[1].type \in {"Retain", "Delete"} =>
            LET z == ZipNext(IterNew(a), IterNew(b), "compose", FALSE) IN
            /\ z.item = Some(a[1])
            /\ next_mut(z.other) = [iter |-> Tail(b), partial |-> Some(b[1])]
            /\ Remaining(z.other) = TotalLen(b)
            /\ Remaining(z.self) = TotalLen(a) - len(a[1])
            /\ next_mut(z.self) =
                   IF Len(a) = 1 THEN [iter |-> <<>>, partial |-> None]
                   ELSE [iter |-> Tail(Tail(a)), partial |-> Some(a[2])]
            /\ Len(a) = 1 /\ Len(b) = 1 =>
                   compose(a, b) =
                       CASE b[1].type = "Delete" /\ len(a[1]) + len(b[1]) <= N_MAX ->
                                <<Delete(len(a[1]) + len(b[1]))>>
                         [] b[1].type = "Delete" /\ len(a[1]) + len(b[1]) > N_MAX ->
                                <<Delete(N_MAX), Delete(len(a[1]) + len(b[1]) - N_MAX)>>
                         [] b[1].type = "Retain" /\ b[1].attributes # None ->
                                <<a[1], b[1]>>
                         [] OTHER -> <<a[1]>>

\* The run has composed a Delete of one with a Delete of two.
ComposeDeleteRowWitness ==
    /\ pc = "composed"
    /\ before = <<Delete(1)>>
    /\ alice = <<Delete(2)>>
    /\ before_alice = <<Delete(3)>>

\* The iterator as it stands after its first op has been consumed whole.
Advanced(d) ==
    IF Len(d) = 1 THEN [iter |-> <<>>, partial |-> None]
    ELSE [iter |-> Tail(Tail(d)), partial |-> Some(d[2])]

\* The iterator as it stands while it still holds all of its first op.
Untouched(d) == [iter |-> Tail(d), partial |-> Some(d[1])]

\* C23: transform of an Insert against an Insert.  With priority a bare
\* Retain of the length of Alice's insert is emitted, Alice's op is consumed
\* and Bob's is left untouched; without priority Bob's whole Insert is
\* emitted, Bob's op is consumed and Alice's is left untouched.
TransformInsertAgainstInsert ==
    \A a \in PushBuilt : \A b \in PushBuilt :
        a # <<>> /\ b # <<>> /\ a[1].type = "Insert" /\ b[1].type = "Insert" =>
            LET with == ZipNext(IterNew(a), IterNew(b), "transform", TRUE)
                without == ZipNext(IterNew(a), IterNew(b), "transform", FALSE)
            IN  /\ with.item = Some(Retain(len(a[1]), None))
                /\ next_mut(with.self) = Advanced(a)
                /\ next_mut(with.other) = Untouched(b)
                /\ without.item = Some(b[1])
                /\ next_mut(without.other) = Advanced(b)
                /\ next_mut(without.self) = Untouched(a)

\* The run has transformed two concurrent inserts against each other, one
\* way with priority and the other way without.
TransformInsertAgainstInsertWitness ==
    /\ pc = "transformed"
    /\ alice = <<Insert(<<"a">>, Some(1))>>
    /\ bob = <<Insert(<<"b">>, None)>>
    /\ bob_t = <<Retain(1, None), Insert(<<"b">>, None)>>
    /\ alice_t = <<Insert(<<"a">>, Some(1))>>

\* C24: transform of Alice's Insert against Bob's Retain or Delete.  A bare
\* Retain of the length of Alice's insert is emitted, Alice's op is consumed
\* and Bob's is not, and the priority makes no difference.
TransformInsertAgainstRest ==
    \A a \in PushBuilt : \A b \in PushBuilt :
        a # <<>> /\ b # <<>> /\ a[1].type = "Insert"
                 /\ b[1].type \in {"Retain", "Delete"} =>
            \A priority \in BOOLEAN :
                LET z == ZipNext(IterNew(a), IterNew(b), "transform", priority) IN
                /\ z.item = Some(Retain(len(a[1]), None))
                /\ next_mut(z.self) = Advanced(a)
                /\ next_mut(z.other) = Untouched(b)
                /\ Remaining(z.other) = TotalLen(b)

\* The run has transformed Bob's Delete against Alice's concurrent Insert:
\* the Delete now sits behind a Retain that skips her text.
TransformInsertAgainstRestWitness ==
    /\ pc = "transformed"
    /\ alice = <<Insert(<<"a">>, Some(1))>>
    /\ bob = <<Delete(1)>>
    /\ bob_t = <<Retain(1, None), Delete(1)>>

\* The elements a delta inserts, in order, each paired with the attributes
\* of the Insert that holds it.
RECURSIVE Inserted(_)
Inserted(d) ==
    IF d = <<>> THEN <<>>
    ELSE (IF Head(d).type = "Insert"
          THEN [i \in 1..Len(Head(d).insert) |->
                    <<Head(d).insert[i], Head(d).attributes>>]
          ELSE <<>>) \o Inserted(Tail(d))

\* C25: transform preserves Bob's inserts.  For push-built deltas A and B
\* and either priority, the elements inserted by transform(A, B, priority),
\* each with its attributes, are those inserted by B, in the same order.
TransformPreservesInserts ==
    /\ \A a \in {alice, bob} : \A b \in {alice, bob} : \A priority \in BOOLEAN :
           Inserted(transform(a, b, priority)) = Inserted(b)
    /\ pc \in {"transformed", "done"} =>
           /\ Inserted(bob_t) = Inserted(bob)
           /\ Inserted(alice_t) = Inserted(alice)

\* The run has transformed Bob's attributed insert against Alice's insert
\* and delete at the same place.
TransformPreservesInsertsWitness ==
    /\ pc = "transformed"
    /\ alice = <<Insert(<<"a">>, None), Delete(1)>>
    /\ bob = <<Insert(<<"b">>, Some(1))>>
    /\ Inserted(bob_t) = <<<<"b", Some(1)>>>>
    /\ bob_t = <<Retain(1, None), Insert(<<"b">>, Some(1))>>

\* The first present of two optional attributes.
FirstPresent(first, second) == IF first # None THEN first ELSE second

\* C26: transform of a Retain against a Retain.  Both ops are consumed by
\* the aligned length m and a Retain of m is emitted whose attributes are
\* the first present of (Alice's, Bob's) with priority and of (Bob's,
\* Alice's) without; they are one side's attributes as they stand, so with
\* priority and two different attributes present the result is not what
\* overlaying Bob's attributes on Alice's would give.
TransformRetainAgainstRetain ==
    \A lhs \in HeldOps : \A rhs \in HeldOps :
        lhs.type = "Retain" /\ rhs.type = "Retain" =>
            \A priority \in BOOLEAN :
                LET r == TransformOp(lhs, rhs, priority)
                    m == min(len(lhs), len(rhs))
                IN  /\ r.out = Retain(m, IF priority
                                         THEN FirstPresent(lhs.attributes, rhs.attributes)
                                         ELSE FirstPresent(rhs.attributes, lhs.attributes))
                    /\ r.lhs = Retain(len(lhs) - m, lhs.attributes)
                    /\ r.rhs = Retain(len(rhs) - m, rhs.attributes)
                    /\ r.out.attributes \in {lhs.attributes, rhs.attributes}
                    /\ priority /\ lhs.attributes # None /\ rhs.attributes # None
                                /\ lhs.attributes # rhs.attributes =>
                           r.out.attributes # Overlay(lhs.attributes, rhs.attributes)

\* The run has transformed two Retains that set different attributes on the
\* same element against each other.
TransformRetainAgainstRetainWitness ==
    /\ pc = "transformed"
    /\ alice = <<Retain(1, Some(1))>>
    /\ bob = <<Retain(2, Some(2))>>
    /\ bob_t = <<Retain(1, Some(1)), Retain(1, Some(2))>>
    /\ alice_t = <<Retain(1, Some(1))>>

\* Ops that lengthen the tail of a delta.
TailOps == {Retain(1, None), Retain(1, Some(1)), Delete(1)}

\* Bob's delta is used up by the lockstep walk of a against b.
BobExhausted(a, b, priority) ==
    Exhausted(zip_mut(<<>>, IterNew(a), IterNew(b), "transform", priority).other)

\* C27: transform drains only Bob's tail.  Transforming the empty delta
\* against any delta gives the empty delta, and transforming a delta against
\* the empty delta gives it back chopped; and once the walk has used up
\* Bob's delta, whatever more Alice's delta holds changes nothing.
TransformDrainsBobOnly ==
    \A a \in {alice, bob} : \A b \in {alice, bob} : \A priority \in BOOLEAN :
        /\ transform(a, <<>>, priority) = <<>>
        /\ transform(<<>>, b, priority) = chop(b)
        /\ BobExhausted(a, b, priority) =>
               \A op \in TailOps :
                   transform(push(a, op), b, priority) = transform(a, b, priority)

\* The run has transformed the empty delta against a delta that inserts and
\* formats, and that delta against the empty one.
TransformDrainsBobOnlyWitness ==
    /\ pc = "transformed"
    /\ alice = <<Insert(<<"a">>, None), Retain(1, Some(1))>>
    /\ bob = <<>>
    /\ bob_t = <<>>
    /\ alice_t = alice

\* C28: the variant-level split of Retain and of Delete is total.  Called on
\* a Retain or a Delete with a length greater than its count, whatever the
\* build, it returns the whole op as the prefix and leaves a count of zero
\* behind.
VariantSplitTotal ==
    \A op \in HeldOps : \A k \in 0..N_MAX : \A overflow_checks \in BOOLEAN :
        op.type \in {"Retain", "Delete"} /\ k > len(op) =>
            SplitDirect(op, k, overflow_checks) =
                Some([prefix |-> op,
                      rest |-> IF op.type = "Retain" THEN Retain(0, op.attributes)
                               ELSE Delete(0)])

\* The elements an op stands for, one by one: the elements of an Insert with
\* its attributes, and one entry per unit of a Retain or a Delete.
UnitsOf(op) ==
    CASE op.type = "Insert" ->
             [i \in 1..Len(op.insert) |-> <<"Insert", op.insert[i], op.attributes>>]
      [] op.type = "Retain" -> [i \in 1..op.retain |-> <<"Retain", op.attributes>>]
      [] op.type = "Delete" -> [i \in 1..op.delete |-> <<"Delete">>]

RECURSIVE Units(_)
Units(d) == IF d = <<>> THEN <<>> ELSE UnitsOf(Head(d)) \o Units(Tail(d))

\* The next op upstream of the buffer, if any.
Upstream(self) == IF self.iter = <<>> THEN None ELSE Some(Head(self.iter))

\* C29: the residual of the dual-cursor iterator.  After any sequence of
\* next_mut calls with splits of the op handed out and of next calls: while
\* the buffered rest of a partially consumed op has a length above zero,
\* next_mut and next hand out that rest, and otherwise they drop it and go
\* on to the next upstream op; and what has been handed out so far followed
\* by what the iterator still yields is the source, element by element, with
\* nothing lost and nothing yielded twice.
IterResidual ==
    pc = "iterating" =>
        /\ Units(yielded) \o Units(drain(cursor)) = Units(alice)
        /\ IF cursor.partial # None /\ len(cursor.partial[1]) > 0
           THEN /\ next(cursor).item = cursor.partial
                /\ next(cursor).self.iter = cursor.iter
                /\ next_mut(cursor) = cursor
           ELSE /\ next(cursor).item = Upstream(cursor)
                /\ next_mut(cursor).partial = Upstream(cursor)
                /\ cursor.iter # <<>> =>
                       /\ next(cursor).self.iter = Tail(cursor.iter)
                       /\ next_mut(cursor).iter = Tail(cursor.iter)

\* One unit has been split off a Retain of two through next_mut, and the
\* iterator holds the rest of it ahead of a Delete still upstream.
IterResidualWitness ==
    /\ pc = "iterating"
    /\ alice = <<Retain(2, Some(1)), Delete(1)>>
    /\ yielded = <<Retain(1, Some(1))>>
    /\ cursor = [iter |-> <<Delete(1)>>, partial |-> Some(Retain(1, Some(1)))]

====
